---- MODULE Spec2Model ----
(***************************************************************************)
(* Pitch Trainer (src/app.js): question generation, adaptive difficulty,   *)
(* statistics, persistence and the event handlers that drive them.         *)
(*                                                                         *)
(* Conventions                                                             *)
(*  - JavaScript arrays are 1-based sequences here (a[i] is a[i + 1]).      *)
(*  - Durations are in milliseconds (noteDuration 1.5 s is 1500).           *)
(*  - Math.random() returns k / RandRes for a draw k in 0 .. RandRes - 1;   *)
(*    every handler takes the draws it consumes as inputs.                  *)
(*  - null / undefined of the code are the values named Null, NoQuestion,   *)
(*    NoAnswer; a JSON key that is missing is absent from the record.       *)
(***************************************************************************)
EXTENDS Integers, Sequences, FiniteSets, TLC

\* ── Bounds of the model ──────────────────────────────────────────────────
RandRes == 13          \* resolution of Math.random(): draws are k / RandRes
MinOctave == 2         \* lowest octave the settings form offers
MaxOctave == 5         \* highest octave the settings form offers

\* ── 1. Constants (src/app.js 7-68) ───────────────────────────────────────
NOTE_NAMES == <<"C", "C#", "D", "D#", "E", "F", "F#", "G", "G#", "A", "A#", "B">>
NATURAL_NOTES == <<"C", "D", "E", "F", "G", "A", "B">>

INTERVALS ==
  << [semitones |-> 0,  name |-> "Unison"],
     [semitones |-> 1,  name |-> "Minor 2nd"],
     [semitones |-> 2,  name |-> "Major 2nd"],
     [semitones |-> 3,  name |-> "Minor 3rd"],
     [semitones |-> 4,  name |-> "Major 3rd"],
     [semitones |-> 5,  name |-> "Perfect 4th"],
     [semitones |-> 6,  name |-> "Tritone"],
     [semitones |-> 7,  name |-> "Perfect 5th"],
     [semitones |-> 8,  name |-> "Minor 6th"],
     [semitones |-> 9,  name |-> "Major 6th"],
     [semitones |-> 10, name |-> "Minor 7th"],
     [semitones |-> 11, name |-> "Major 7th"],
     [semitones |-> 12, name |-> "Octave"] >>

EASY_INTERVALS == <<0, 2, 4, 5, 7, 12>>

CHORDS ==
  << [name |-> "Major", semitones |-> <<0, 4, 7>>,     pool |-> "basic"],
     [name |-> "Minor", semitones |-> <<0, 3, 7>>,     pool |-> "basic"],
     [name |-> "Dim",   semitones |-> <<0, 3, 6>>,     pool |-> "triads"],
     [name |-> "Aug",   semitones |-> <<0, 4, 8>>,     pool |-> "triads"],
     [name |-> "Dom7",  semitones |-> <<0, 4, 7, 10>>, pool |-> "seventh"],
     [name |-> "Maj7",  semitones |-> <<0, 4, 7, 11>>, pool |-> "seventh"],
     [name |-> "Min7",  semitones |-> <<0, 3, 7, 10>>, pool |-> "seventh"],
     [name |-> "Dim7",  semitones |-> <<0, 3, 6, 9>>,  pool |-> "extended"],
     [name |-> "m7b5",  semitones |-> <<0, 3, 6, 10>>, pool |-> "extended"],
     [name |-> "Sus2",  semitones |-> <<0, 2, 7>>,     pool |-> "extended"],
     [name |-> "Sus4",  semitones |-> <<0, 5, 7>>,     pool |-> "extended"] >>

\* replayLimit: Infinity, as a number no replay count of the model reaches
Infinity == 1000000

DIFFICULTY ==
  [ easy   |-> [noteDuration |-> 1500, replayLimit |-> Infinity, notePool |-> "natural",
                intervalPool |-> "easy", chordPool |-> "basic"],
    medium |-> [noteDuration |-> 1000, replayLimit |-> Infinity, notePool |-> "chromatic",
                intervalPool |-> "all", chordPool |-> "triads"],
    hard   |-> [noteDuration |-> 500, replayLimit |-> 2, notePool |-> "chromatic",
                intervalPool |-> "all+descending", chordPool |-> "all"] ]

\* a tier sets only its own mode's pool; the pools it leaves out are absent
ADAPTIVE_TIERS ==
  [ note |->
      << [notePool |-> "natural",   noteDuration |-> 1500, replayLimit |-> Infinity],
         [notePool |-> "chromatic", noteDuration |-> 1200, replayLimit |-> Infinity],
         [notePool |-> "chromatic", noteDuration |-> 700,  replayLimit |-> 4] >>,
    interval |->
      << [intervalPool |-> "easy",           noteDuration |-> 1500, replayLimit |-> Infinity],
         [intervalPool |-> "all",            noteDuration |-> 1000, replayLimit |-> Infinity],
         [intervalPool |-> "all+descending", noteDuration |-> 700,  replayLimit |-> 3] >>,
    chord |->
      << [chordPool |-> "basic",  noteDuration |-> 2000, replayLimit |-> Infinity],
         [chordPool |-> "triads", noteDuration |-> 1500, replayLimit |-> Infinity],
         [chordPool |-> "all",    noteDuration |-> 1200, replayLimit |-> 3] >> ]

TIMED_DURATION == 60

Modes == {"note", "interval", "chord"}
Difficulties == {"easy", "medium", "hard", "adaptive"}
Null == "null"                 \* state.mode before a mode is selected
NoAnswer == "<none>"           \* state.userAnswer = null
NoQuestion == [answer |-> "<none>"]   \* state.currentQuestion = null

\* ── 3. State (src/app.js 191-218, 231) ───────────────────────────────────
VARIABLES
  phase,            \* "start" before init() has run, "ready" after
  mode, difficulty, screen, previousScreen,
  score, streak, bestStreak,
  replaysUsed, currentQuestion, userAnswer, hintUsed,
  timedMode, timerInterval, timerRemaining, timedAnswering,
  adaptive, settings,
  stats,            \* the module-level stats object
  storage,          \* localStorage['pitchTrainer']
  lastSave,         \* outcome of the last localStorage.setItem: "none", "ok", "failed"
  timedChecked,     \* els.timedMode.checked
  activeTimers,     \* ids of the setInterval round timers the browser still runs
  countdowns,       \* showCountdown callbacks not yet run
  nextTimeouts      \* post-answer setTimeout callbacks not yet run

vars == << phase, mode, difficulty, screen, previousScreen, score, streak, bestStreak,
           replaysUsed, currentQuestion, userAnswer, hintUsed,
           timedMode, timerInterval, timerRemaining, timedAnswering,
           adaptive, settings, stats, storage, lastSave, timedChecked,
           activeTimers, countdowns, nextTimeouts >>

Draws == 0 .. (RandRes - 1)
OctaveValues == MinOctave .. MaxOctave

\* ── 6. Difficulty (src/app.js 311-326) ───────────────────────────────────
Min(a, b) == IF a < b THEN a ELSE b
Max(a, b) == IF a > b THEN a ELSE b

tiersOf(m) == IF m \in Modes THEN ADAPTIVE_TIERS[m] ELSE << >>

\* getEffectiveDifficulty for state.difficulty = d, state.mode = m, state.adaptive.tier = t
effectiveDifficulty(d, m, t) ==
  IF d # "adaptive" THEN DIFFICULTY[d]
  ELSE IF tiersOf(m) = << >> THEN DIFFICULTY.easy
  ELSE LET tiers == tiersOf(m)
           tier == Min(t, Len(tiers) - 1)
           tc == tiers[tier + 1]
       IN [ noteDuration |-> tc.noteDuration,
            replayLimit  |-> tc.replayLimit,
            notePool     |-> IF "notePool" \in DOMAIN tc THEN tc.notePool ELSE "natural",
            intervalPool |-> IF "intervalPool" \in DOMAIN tc THEN tc.intervalPool ELSE "easy",
            chordPool    |-> IF "chordPool" \in DOMAIN tc THEN tc.chordPool ELSE "basic" ]

getEffectiveDifficulty == effectiveDifficulty(difficulty, mode, adaptive.tier)

\* ── 7. Question generation (src/app.js 358-461) ──────────────────────────
getMidiRange ==
  [ low  |-> (settings.octaveMin + 1) * 12,
    high |-> (settings.octaveMax + 1) * 12 + 11 ]

\* Math.floor(Math.random() * (max - min + 1)) + min with Math.random() = k / RandRes
randomInt(min, max, k) == ((k * (max - min + 1)) \div RandRes) + min

noteNameFromMidi(midi) == NOTE_NAMES[(midi % 12) + 1]

indexOf(seq, x) == IF \E i \in 1 .. Len(seq) : seq[i] = x
                   THEN (CHOOSE i \in 1 .. Len(seq) : seq[i] = x /\ \A j \in 1 .. (i - 1) : seq[j] # x) - 1
                   ELSE -1

RECURSIVE filterSeq(_, _)
\* Array.prototype.filter with the set of kept elements as the predicate
filterSeq(seq, keep) ==
  IF seq = << >> THEN << >>
  ELSE IF Head(seq) \in keep THEN << Head(seq) >> \o filterSeq(Tail(seq), keep)
  ELSE filterSeq(Tail(seq), keep)

\* INTERVALS.filter(i => EASY_INTERVALS.indexOf(i.semitones) !== -1)
easyIntervals ==
  filterSeq(INTERVALS, {i \in {INTERVALS[n] : n \in 1 .. Len(INTERVALS)} :
                          indexOf(EASY_INTERVALS, i.semitones) # -1})

\* CHORDS.filter(c => c.pool === 'basic')
basicChords == filterSeq(CHORDS, {c \in {CHORDS[n] : n \in 1 .. Len(CHORDS)} : c.pool = "basic"})

\* CHORDS.filter(c => c.pool === 'basic' || c.pool === 'triads')
triadChords ==
  filterSeq(CHORDS, {c \in {CHORDS[n] : n \in 1 .. Len(CHORDS)} :
                       c.pool = "basic" \/ c.pool = "triads"})

RECURSIVE midisFrom(_, _)
\* the for loop of generateNoteQuestion: the natural pitches of m .. high, ascending
midisFrom(m, high) ==
  IF m > high THEN << >>
  ELSE IF indexOf(NATURAL_NOTES, NOTE_NAMES[(m % 12) + 1]) # -1
       THEN << m >> \o midisFrom(m + 1, high)
       ELSE midisFrom(m + 1, high)

\* generateNoteQuestion without the natural-note pool
generateNoteQuestion_anyPool(range, diff, k1) ==
  LET midi == randomInt(range.low, range.high, k1)
  IN [midi |-> midi, answer |-> noteNameFromMidi(midi)]

generateNoteQuestion(range, diff, k1) ==
  LET naturals == midisFrom(range.low, range.high)
      midi == IF diff.notePool = "natural"
              THEN naturals[randomInt(0, Len(naturals) - 1, k1) + 1]
              ELSE randomInt(range.low, range.high, k1)
  IN [midi |-> midi, answer |-> noteNameFromMidi(midi)]

\* generateIntervalQuestion drawing the first note from the whole range
generateIntervalQuestion_wholeRange(range, diff, k1, k2, k3) ==
  LET pool == IF diff.intervalPool = "easy" THEN easyIntervals ELSE INTERVALS
      interval == pool[randomInt(0, Len(pool) - 1, k1) + 1]
      ascending == IF diff.intervalPool = "all+descending" /\ interval.semitones > 0
                   THEN 2 * k2 < RandRes
                   ELSE TRUE
      midi1 == randomInt(range.low, range.high, k3)
      midi2 == IF ascending THEN midi1 + interval.semitones ELSE midi1 - interval.semitones
      dirLabel == IF ascending THEN "" ELSE " (desc)"
  IN [ midi1 |-> midi1, midi2 |-> midi2, semitones |-> interval.semitones,
       ascending |-> ascending, answer |-> interval.name \o dirLabel ]

generateIntervalQuestion(range, diff, k1, k2, k3) ==
  LET pool == IF diff.intervalPool = "easy" THEN easyIntervals ELSE INTERVALS
      interval == pool[randomInt(0, Len(pool) - 1, k1) + 1]
      ascending == IF diff.intervalPool = "all+descending" /\ interval.semitones > 0
                   THEN 2 * k2 < RandRes        \* Math.random() < 0.5
                   ELSE TRUE
      midi1 == IF ascending
               THEN randomInt(range.low, Max(range.low, range.high - interval.semitones), k3)
               ELSE randomInt(Min(range.high, range.low + interval.semitones), range.high, k3)
      midi2 == IF ascending THEN midi1 + interval.semitones ELSE midi1 - interval.semitones
      dirLabel == IF ascending THEN "" ELSE " (desc)"
  IN [ midi1 |-> midi1, midi2 |-> midi2, semitones |-> interval.semitones,
       ascending |-> ascending, answer |-> interval.name \o dirLabel ]

RECURSIVE maxOf(_)
maxOf(seq) == IF Len(seq) = 1 THEN seq[1] ELSE Max(Head(seq), maxOf(Tail(seq)))

\* generateChordQuestion leaving room for a triad's fifth only
generateChordQuestion_fifthOnly(range, diff, k1, k2) ==
  LET pool == IF diff.chordPool = "basic" THEN basicChords
              ELSE IF diff.chordPool = "triads" THEN triadChords
              ELSE CHORDS
      chord == pool[randomInt(0, Len(pool) - 1, k1) + 1]
      rootMidi == randomInt(range.low, Max(range.low, range.high - 7), k2)
      midiNotes == [i \in 1 .. Len(chord.semitones) |-> rootMidi + chord.semitones[i]]
  IN [rootMidi |-> rootMidi, midiNotes |-> midiNotes, answer |-> chord.name]

generateChordQuestion(range, diff, k1, k2) ==
  LET pool == IF diff.chordPool = "basic" THEN basicChords
              ELSE IF diff.chordPool = "triads" THEN triadChords
              ELSE CHORDS
      chord == pool[randomInt(0, Len(pool) - 1, k1) + 1]
      maxSemitone == maxOf(chord.semitones)
      rootMidi == randomInt(range.low, Max(range.low, range.high - maxSemitone), k2)
      midiNotes == [i \in 1 .. Len(chord.semitones) |-> rootMidi + chord.semitones[i]]
  IN [rootMidi |-> rootMidi, midiNotes |-> midiNotes, answer |-> chord.name]

\* the question generateQuestion dispatches to when state.mode = m and
\* state.adaptive.tier = t, from three draws
questionFor(m, t, k1, k2, k3) ==
  LET range == getMidiRange
      diff == effectiveDifficulty(difficulty, m, t)
  IN IF m = "note" THEN generateNoteQuestion(range, diff, k1)
     ELSE IF m = "interval" THEN generateIntervalQuestion(range, diff, k1, k2, k3)
     ELSE generateChordQuestion(range, diff, k1, k2)

\* a generateQuestion that leaves the replay count and the hint flag of the
\* question before
generateQuestion_keepCounters(m, t, k1, k2, k3) ==
  /\ currentQuestion' = questionFor(m, t, k1, k2, k3)
  /\ replaysUsed' = replaysUsed
  /\ userAnswer' = NoAnswer
  /\ hintUsed' = hintUsed

\* generateQuestion, called with state.mode = m and state.adaptive.tier = t (no
\* caller changes the difficulty or the settings)
generateQuestion(m, t, k1, k2, k3) ==
  /\ currentQuestion' = questionFor(m, t, k1, k2, k3)
  /\ replaysUsed' = 0
  /\ userAnswer' = NoAnswer
  /\ hintUsed' = FALSE

\* ── 4. Stats (src/app.js 222-260) ────────────────────────────────────────
\* stats.items[mode] is an object name -> [correct, total]; it is kept here as the
\* sequence of its entries in key insertion order (the order of Object.keys)
defaultStats ==
  [ items |-> [note |-> << >>, interval |-> << >>, chord |-> << >>],
    timedBest |-> [note |-> 0, interval |-> 0, chord |-> 0],
    totalCorrect |-> 0,
    totalQuestions |-> 0 ]

hasKey(items, itemKey) == \E i \in 1 .. Len(items) : items[i].name = itemKey

keyIndex(items, itemKey) == CHOOSE i \in 1 .. Len(items) : items[i].name = itemKey

\* a recordStat that counts every answer as correct in the entry
recordStat_alwaysCorrect(st, m, itemKey, isCorrect) ==
  LET items0 == IF m \in DOMAIN st.items THEN st.items[m] ELSE << >>
      items1 == IF hasKey(items0, itemKey) THEN items0
                ELSE Append(items0, [name |-> itemKey, correct |-> 0, total |-> 0])
      i == keyIndex(items1, itemKey)
      items3 == [items1 EXCEPT ![i].total = @ + 1, ![i].correct = @ + 1]
  IN [ st EXCEPT !.items = [k \in (DOMAIN st.items) \cup {m} |->
                              IF k = m THEN items3 ELSE st.items[k]],
                 !.totalQuestions = @ + 1,
                 !.totalCorrect = IF isCorrect THEN @ + 1 ELSE @ ]

\* the in-memory part of recordStat (its saveData call is SaveData in the handlers)
recordStat(st, m, itemKey, isCorrect) ==
  LET items0 == IF m \in DOMAIN st.items THEN st.items[m] ELSE << >>
      items1 == IF hasKey(items0, itemKey) THEN items0
                ELSE Append(items0, [name |-> itemKey, correct |-> 0, total |-> 0])
      i == keyIndex(items1, itemKey)
      items2 == [items1 EXCEPT ![i].total = @ + 1]
      items3 == IF isCorrect THEN [items2 EXCEPT ![i].correct = @ + 1] ELSE items2
  IN [ st EXCEPT !.items = [k \in (DOMAIN st.items) \cup {m} |->
                              IF k = m THEN items3 ELSE st.items[k]],
                 !.totalQuestions = @ + 1,
                 !.totalCorrect = IF isCorrect THEN @ + 1 ELSE @ ]

\* Math.round((c / t) * 100): the nearest integer, halves rounded up
pctOf(c, t) == IF t > 0 THEN (200 * c + t) \div (2 * t) ELSE 0

RECURSIVE insertSorted(_, _)
\* insert e after every element whose pct is not greater (a stable sort step)
insertSorted(sorted, e) ==
  IF sorted = << >> THEN << e >>
  ELSE IF Head(sorted).pct - e.pct <= 0
       THEN << Head(sorted) >> \o insertSorted(Tail(sorted), e)
       ELSE << e >> \o sorted

RECURSIVE sortByPct(_)
\* Array.prototype.sort with the comparator a.pct - b.pct (stable)
sortByPct(seq) ==
  IF seq = << >> THEN << >>
  ELSE insertSorted(sortByPct(SubSeq(seq, 1, Len(seq) - 1)), seq[Len(seq)])

getItemStats(m) ==
  LET items == IF m \in DOMAIN stats.items THEN stats.items[m] ELSE << >>
      mapped == [i \in 1 .. Len(items) |->
                   [ name |-> items[i].name, correct |-> items[i].correct,
                     total |-> items[i].total,
                     pct |-> pctOf(items[i].correct, items[i].total) ]]
  IN sortByPct(mapped)

RECURSIVE filterTotal_floorTwo(_)
\* a filter that keeps entries from a total of 2
filterTotal_floorTwo(seq) ==
  IF seq = << >> THEN << >>
  ELSE IF Head(seq).total >= 2 THEN << Head(seq) >> \o filterTotal_floorTwo(Tail(seq))
  ELSE filterTotal_floorTwo(Tail(seq))

RECURSIVE filterTotal(_)
\* .filter(s => s.total >= 3)
filterTotal(seq) ==
  IF seq = << >> THEN << >>
  ELSE IF Head(seq).total >= 3 THEN << Head(seq) >> \o filterTotal(Tail(seq))
  ELSE filterTotal(Tail(seq))

getWeakest(m, n) ==
  LET n1 == IF n = 0 THEN 3 ELSE n          \* n = n || 3
      kept == filterTotal(getItemStats(m))
  IN SubSeq(kept, 1, Min(n1, Len(kept)))    \* .slice(0, n)

\* ── 5. Persistence (src/app.js 264-307) ──────────────────────────────────
\* localStorage['pitchTrainer'] is one of
\*   [kind |-> "absent"]    getItem returns null
\*   [kind |-> "corrupt"]   a text JSON.parse rejects
\*   [kind |-> "null"]      the text "null"
\*   [kind |-> "object", data |-> d]  a JSON object; d has the keys that are present.
\* d.bestStreak is [t |-> "num", v |-> X] or [t |-> "obj", o |-> record];
\* d.settings and d.stats are records holding the keys that are present.
defaultBestStreak == [note |-> 0, interval |-> 0, chord |-> 0]

defaultSettings ==
  [ octaveMin |-> 3, octaveMax |-> 5, waveform |-> "triangle",
    volume |-> 60, referenceTone |-> FALSE ]

\* a snapshot in the first release's format: one best streak, the note mode's
snapshot_scalarStreak ==
  [ kind |-> "object",
    data |-> [ bestStreak |-> [t |-> "num", v |-> bestStreak.note],
               settings |-> settings,
               stats |-> stats ] ]

\* JSON.stringify({bestStreak, settings, stats}) as stored
snapshot ==
  [ kind |-> "object",
    data |-> [ bestStreak |-> [t |-> "obj", o |-> bestStreak],
               settings |-> settings,
               stats |-> stats ] ]

\* Object.assign(target, source)
assign(target, source) ==
  [k \in (DOMAIN target) \cup (DOMAIN source) |->
     IF k \in DOMAIN source THEN source[k] ELSE target[k]]

\* o[k] || 0
orZero(o, k) == IF k \in DOMAIN o THEN o[k] ELSE 0

\* a migration that carries the single number into all three modes
loadBestStreak_allModes(cur, data) ==
  IF "bestStreak" \notin DOMAIN data THEN cur
  ELSE IF data.bestStreak.t = "num"
       THEN [note |-> data.bestStreak.v, interval |-> data.bestStreak.v,
             chord |-> data.bestStreak.v]
  ELSE [ note |-> orZero(data.bestStreak.o, "note"),
         interval |-> orZero(data.bestStreak.o, "interval"),
         chord |-> orZero(data.bestStreak.o, "chord") ]

loadBestStreak(cur, data) ==
  IF "bestStreak" \notin DOMAIN data THEN cur
  ELSE IF data.bestStreak.t = "num"
       THEN [note |-> data.bestStreak.v, interval |-> data.bestStreak.v, chord |-> 0]
  ELSE [ note |-> orZero(data.bestStreak.o, "note"),
         interval |-> orZero(data.bestStreak.o, "interval"),
         chord |-> orZero(data.bestStreak.o, "chord") ]

loadSettings(cur, data) ==
  IF "settings" \notin DOMAIN data THEN cur
  ELSE assign(cur, data.settings)      \* volume is a number in every stored record

loadStats(cur, data) ==
  IF "stats" \notin DOMAIN data THEN cur
  ELSE LET s1 == assign(defaultStats, data.stats)
           it == s1.items
           it2 == [k \in (DOMAIN it) \cup Modes |-> IF k \in DOMAIN it THEN it[k] ELSE << >>]
       IN [s1 EXCEPT !.items = it2]

\* loadData: what it leaves in <<state.bestStreak, state.settings, stats>>
loadData(cur, stored) ==
  IF stored.kind # "object" THEN cur    \* !raw, or JSON.parse / data.bestStreak throws
  ELSE [ bestStreak |-> loadBestStreak(cur.bestStreak, stored.data),
         settings |-> loadSettings(cur.settings, stored.data),
         stats |-> loadStats(cur.stats, stored.data) ]

\* saveData after the handler's updates; ok = FALSE when setItem throws
SaveData(ok) ==
  /\ storage' = IF ok THEN snapshot' ELSE storage
  /\ lastSave' = IF ok THEN "ok" ELSE "failed"

\* ── 6b. Adaptive tracker (src/app.js 335-354) ────────────────────────────
countTrue(h) == Cardinality({i \in 1 .. Len(h) : h[i]})

\* updateAdaptive judging the window from 4 outcomes on
updateAdaptive_fourOutcomes(isCorrect) ==
  IF difficulty # "adaptive" THEN adaptive
  ELSE LET pushed == Append(adaptive.history, isCorrect)
           h == IF Len(pushed) > 10 THEN Tail(pushed) ELSE pushed
           correct == countTrue(h)
           maxTier == Len(tiersOf(mode)) - 1
       IN IF Len(h) >= 4
          THEN IF 10 * correct >= 8 * Len(h) /\ adaptive.tier < maxTier
               THEN [tier |-> adaptive.tier + 1, history |-> << >>]
               ELSE IF 10 * correct < 4 * Len(h) /\ adaptive.tier > 0
               THEN [tier |-> adaptive.tier - 1, history |-> << >>]
               ELSE [tier |-> adaptive.tier, history |-> h]
          ELSE [tier |-> adaptive.tier, history |-> h]

\* updateAdaptive that never drops the oldest outcome
updateAdaptive_noShift(isCorrect) ==
  IF difficulty # "adaptive" THEN adaptive
  ELSE LET h == Append(adaptive.history, isCorrect)
           correct == countTrue(h)
           maxTier == Len(tiersOf(mode)) - 1
       IN IF Len(h) >= 5
          THEN IF 10 * correct >= 8 * Len(h) /\ adaptive.tier < maxTier
               THEN [tier |-> adaptive.tier + 1, history |-> << >>]
               ELSE IF 10 * correct < 4 * Len(h) /\ adaptive.tier > 0
               THEN [tier |-> adaptive.tier - 1, history |-> << >>]
               ELSE [tier |-> adaptive.tier, history |-> h]
          ELSE [tier |-> adaptive.tier, history |-> h]

\* updateAdaptive that keeps the window when the tier changes
updateAdaptive_keepWindow(isCorrect) ==
  IF difficulty # "adaptive" THEN adaptive
  ELSE LET pushed == Append(adaptive.history, isCorrect)
           h == IF Len(pushed) > 10 THEN Tail(pushed) ELSE pushed
           correct == countTrue(h)
           maxTier == Len(tiersOf(mode)) - 1
       IN IF Len(h) >= 5
          THEN IF 10 * correct >= 8 * Len(h) /\ adaptive.tier < maxTier
               THEN [tier |-> adaptive.tier + 1, history |-> h]
               ELSE IF 10 * correct < 4 * Len(h) /\ adaptive.tier > 0
               THEN [tier |-> adaptive.tier - 1, history |-> h]
               ELSE [tier |-> adaptive.tier, history |-> h]
          ELSE [tier |-> adaptive.tier, history |-> h]

\* updateAdaptive(isCorrect): the next state.adaptive, read after state.mode is set
updateAdaptive(isCorrect) ==
  IF difficulty # "adaptive" THEN adaptive
  ELSE LET pushed == Append(adaptive.history, isCorrect)
           h == IF Len(pushed) > 10 THEN Tail(pushed) ELSE pushed
           correct == countTrue(h)
           maxTier == Len(tiersOf(mode)) - 1
       IN IF Len(h) >= 5
          THEN IF 10 * correct >= 8 * Len(h) /\ adaptive.tier < maxTier     \* acc >= 0.8
               THEN [tier |-> adaptive.tier + 1, history |-> << >>]
               ELSE IF 10 * correct < 4 * Len(h) /\ adaptive.tier > 0        \* acc < 0.4
               THEN [tier |-> adaptive.tier - 1, history |-> << >>]
               ELSE [tier |-> adaptive.tier, history |-> h]
          ELSE [tier |-> adaptive.tier, history |-> h]

\* ── 8. Answer choices (src/app.js 465-508) ───────────────────────────────
getChoices ==
  LET diff == getEffectiveDifficulty
      easy == easyIntervals
      names == [n \in 1 .. Len(INTERVALS) |-> INTERVALS[n].name]
      desc == [n \in 1 .. (Len(INTERVALS) - 1) |-> INTERVALS[n + 1].name \o " (desc)"]
      chords == IF diff.chordPool = "basic" THEN basicChords
                ELSE IF diff.chordPool = "triads" THEN triadChords
                ELSE CHORDS
  IN IF mode = "note"
     THEN (IF diff.notePool = "natural" THEN NATURAL_NOTES ELSE NOTE_NAMES)
     ELSE IF mode = "interval"
     THEN (IF diff.intervalPool = "easy" THEN [n \in 1 .. Len(easy) |-> easy[n].name]
           ELSE IF diff.intervalPool = "all+descending" THEN names \o desc
           ELSE names)
     ELSE [n \in 1 .. Len(chords) |-> chords[n].name]

\* ── Initial state ────────────────────────────────────────────────────────
\* the module-level initialisers of app.js; storage is whatever an earlier
\* session left behind
InitState ==
  /\ phase = "start"
  /\ mode = Null
  /\ difficulty = "easy"
  /\ screen = "menu"
  /\ previousScreen = "menu"
  /\ score = [correct |-> 0, total |-> 0]
  /\ streak = 0
  /\ bestStreak = defaultBestStreak
  /\ replaysUsed = 0
  /\ currentQuestion = NoQuestion
  /\ userAnswer = NoAnswer
  /\ hintUsed = FALSE
  /\ timedMode = FALSE
  /\ timerInterval = 0
  /\ timerRemaining = TIMED_DURATION
  /\ timedAnswering = FALSE
  /\ adaptive = [tier |-> 0, history |-> << >>]
  /\ settings = defaultSettings
  /\ stats = defaultStats
  /\ lastSave = "none"
  /\ timedChecked = FALSE
  /\ activeTimers = {}
  /\ countdowns = 0
  /\ nextTimeouts = 0

\* ── 10. Timer (src/app.js 596-649) ───────────────────────────────────────
\* setInterval returns an id no running timer has
freshTimerId == CHOOSE id \in 1 .. (Cardinality(activeTimers) + 2) :
                  id \notin activeTimers /\ id # timerInterval

\* endTimedChallenge after the caller has set timerInterval' and activeTimers'
endTimedChallenge(ok) ==
  LET isNewBest == score.correct > orZero(stats.timedBest, mode)
  IN /\ timedAnswering' = FALSE
     /\ stats' = IF isNewBest
                 THEN [stats EXCEPT !.timedBest =
                         [k \in (DOMAIN stats.timedBest) \cup {mode} |->
                            IF k = mode THEN score.correct ELSE stats.timedBest[k]]]
                 ELSE stats
     /\ IF isNewBest THEN SaveData(ok) ELSE UNCHANGED << storage, lastSave >>
     /\ screen' = "timed-result"

\* one firing of the setInterval callback of startTimer for timer id
TimerTick(id, ok) ==
  /\ phase = "ready"
  /\ id \in activeTimers
  /\ timerRemaining' = timerRemaining - 1
  /\ IF timerRemaining' <= 0
     THEN /\ activeTimers' = activeTimers \ {timerInterval}   \* clearInterval(state.timerInterval)
          /\ timerInterval' = 0
          /\ UNCHANGED << bestStreak, settings >>
          /\ endTimedChallenge(ok)
     ELSE UNCHANGED << activeTimers, timerInterval, timedAnswering, stats, bestStreak,
                       settings, storage, lastSave, screen >>
  /\ UNCHANGED << phase, mode, difficulty, previousScreen, score, streak, replaysUsed,
                  currentQuestion, userAnswer, hintUsed, timedMode, adaptive,
                  timedChecked, countdowns, nextTimeouts >>

\* the callback handleModeSelect hands to showCountdown: startTimer(); playCurrentQuestion()
CountdownDone ==
  /\ phase = "ready"
  /\ countdowns > 0
  /\ countdowns' = countdowns - 1
  /\ timerRemaining' = TIMED_DURATION
  /\ timerInterval' = freshTimerId
  /\ activeTimers' = activeTimers \cup {freshTimerId}
  /\ UNCHANGED << phase, mode, difficulty, screen, previousScreen, score, streak, bestStreak,
                  replaysUsed, currentQuestion, userAnswer, hintUsed, timedMode,
                  timedAnswering, adaptive, settings, stats, storage, lastSave,
                  timedChecked, nextTimeouts >>

\* ── 2. Audio: what playCurrentQuestion schedules (src/app.js 92-187) ─────
\* times are in milliseconds from ctx.currentTime at the call
REFERENCE_DURATION == 800      \* playTone(440, 0.8)
REFERENCE_OFFSET == 1000       \* offset = 1.0
INTERVAL_GAP == 150            \* offset + dur + 0.15
REFERENCE_MIDI == 69           \* 440 Hz

\* playTone as far as the schedule goes: what sounds, from when, for how long
playTone(tone, midi, duration, delayStart) ==
  [tone |-> tone, midi |-> midi, start |-> delayStart, duration |-> duration]

playNote(midi, duration, delayStart) == playTone("question", midi, duration, delayStart)

playReferenceTone == playTone("reference", REFERENCE_MIDI, REFERENCE_DURATION, 0)

\* a playCurrentQuestion that starts the question tones when the reference tone ends
questionTones_afterReference(m, q, dur, ref) ==
  LET offset == IF ref THEN REFERENCE_DURATION ELSE 0
  IN IF m = "note" THEN << playNote(q.midi, dur, offset) >>
     ELSE IF m = "interval"
     THEN << playNote(q.midi1, dur, offset), playNote(q.midi2, dur, offset + dur + INTERVAL_GAP) >>
     ELSE IF m = "chord"
     THEN [i \in 1 .. Len(q.midiNotes) |-> playNote(q.midiNotes[i], (dur * 3) \div 2, offset)]
     ELSE << >>

\* the playNote calls of playCurrentQuestion for mode m and question q
questionTones(m, q, dur, ref) ==
  LET offset == IF ref THEN REFERENCE_OFFSET ELSE 0
  IN IF m = "note" THEN << playNote(q.midi, dur, offset) >>
     ELSE IF m = "interval"
     THEN << playNote(q.midi1, dur, offset), playNote(q.midi2, dur, offset + dur + INTERVAL_GAP) >>
     ELSE IF m = "chord"
     THEN [i \in 1 .. Len(q.midiNotes) |-> playNote(q.midiNotes[i], (dur * 3) \div 2, offset)]
     ELSE << >>

\* playCurrentQuestion(): the tones it schedules, in call order
playCurrentQuestion ==
  (IF settings.referenceTone THEN << playReferenceTone >> ELSE << >>) \o
  questionTones(mode, currentQuestion, getEffectiveDifficulty.noteDuration,
                settings.referenceTone)

\* ── 16. Event handlers (src/app.js 1026-1213) ────────────────────────────
\* init(): loadData() on DOMContentLoaded
Boot ==
  /\ phase = "start"
  /\ phase' = "ready"
  /\ LET loaded == loadData([bestStreak |-> bestStreak, settings |-> settings, stats |-> stats],
                            storage)
     IN /\ bestStreak' = loaded.bestStreak
        /\ settings' = loaded.settings
        /\ stats' = loaded.stats
  /\ UNCHANGED << mode, difficulty, screen, previousScreen, score, streak,
                  replaysUsed, currentQuestion, userAnswer, hintUsed,
                  timedMode, timerInterval, timerRemaining, timedAnswering,
                  adaptive, storage, lastSave, timedChecked,
                  activeTimers, countdowns, nextTimeouts >>

\* the body of handleModeSelect(m) with the timed checkbox as it stands
modeSelect(m, k1, k2, k3) ==
  /\ mode' = m
  /\ score' = [correct |-> 0, total |-> 0]
  /\ streak' = 0
  /\ timedAnswering' = FALSE
  /\ adaptive' = [tier |-> 0, history |-> << >>]
  /\ timedMode' = timedChecked'
  /\ UNCHANGED << difficulty, settings >>
  /\ generateQuestion(m, 0, k1, k2, k3)
  /\ screen' = "playing"
  /\ countdowns' = IF timedMode' THEN countdowns + 1 ELSE countdowns
  /\ UNCHANGED << phase, previousScreen, bestStreak, timerInterval, timerRemaining,
                  stats, storage, lastSave, activeTimers, nextTimeouts >>

\* a mode button of the menu, with the timed checkbox set to checked
HandleModeSelect(m, checked, k1, k2, k3) ==
  /\ phase = "ready"
  /\ screen = "menu"
  /\ timedChecked' = checked
  /\ modeSelect(m, k1, k2, k3)

HandleTimedRetry(k1, k2, k3) ==
  /\ phase = "ready"
  /\ screen = "timed-result"
  /\ IF mode = Null THEN UNCHANGED vars
     ELSE /\ timedChecked' = timedChecked
          /\ modeSelect(mode, k1, k2, k3)

HandleDifficulty(diff) ==
  /\ phase = "ready"
  /\ screen = "menu"
  /\ difficulty' = diff
  /\ UNCHANGED << phase, mode, screen, previousScreen, score, streak, bestStreak,
                  replaysUsed, currentQuestion, userAnswer, hintUsed,
                  timedMode, timerInterval, timerRemaining, timedAnswering,
                  adaptive, settings, stats, storage, lastSave, timedChecked,
                  activeTimers, countdowns, nextTimeouts >>

\* a handleAnswer whose saveData lets the exception of setItem escape: the
\* handler stops at the write that throws
HandleAnswer_uncaught(answer, ok1, ok2) ==
  /\ phase = "ready"
  /\ screen = "playing"
  /\ IF timedAnswering \/ (timedMode /\ timerRemaining <= 0) THEN UNCHANGED vars
     ELSE LET isCorrect == answer = currentQuestion.answer
              modeStreak == orZero(bestStreak, mode)
              newBest == isCorrect /\ streak + 1 > modeStreak
              stop1 == newBest /\ ~ok1
              stop2 == ~stop1 /\ ~ok2
          IN /\ userAnswer' = answer
             /\ score' = [ correct |-> IF isCorrect THEN score.correct + 1 ELSE score.correct,
                           total |-> score.total + 1 ]
             /\ streak' = IF isCorrect THEN streak + 1 ELSE 0
             /\ bestStreak' = IF newBest THEN [bestStreak EXCEPT ![mode] = streak + 1]
                              ELSE bestStreak
             /\ stats' = IF stop1 THEN stats
                         ELSE recordStat(stats, mode, currentQuestion.answer, isCorrect)
             /\ UNCHANGED settings
             /\ IF stop1 THEN SaveData(FALSE)
                ELSE IF ok2 THEN SaveData(TRUE)
                ELSE IF newBest
                THEN /\ storage' = [snapshot' EXCEPT !.data.stats = stats]
                     /\ lastSave' = "failed"
                ELSE SaveData(FALSE)
             /\ adaptive' = IF stop1 \/ stop2 THEN adaptive ELSE updateAdaptive(isCorrect)
             /\ IF stop1 \/ stop2
                THEN UNCHANGED << timedAnswering, nextTimeouts, screen >>
                ELSE IF timedMode
                THEN /\ timedAnswering' = TRUE
                     /\ nextTimeouts' = nextTimeouts + 1
                     /\ screen' = screen
                ELSE /\ screen' = "result"
                     /\ UNCHANGED << timedAnswering, nextTimeouts >>
             /\ UNCHANGED << phase, mode, difficulty, previousScreen, replaysUsed,
                             currentQuestion, hintUsed, timedMode, timerInterval,
                             timerRemaining, timedChecked, activeTimers, countdowns >>

\* handleAnswer(answer); ok1 and ok2 are the outcomes of its two saveData calls
HandleAnswer(answer, ok1, ok2) ==
  /\ phase = "ready"
  /\ screen = "playing"
  /\ IF timedAnswering \/ (timedMode /\ timerRemaining <= 0) THEN UNCHANGED vars
     ELSE LET isCorrect == answer = currentQuestion.answer
              modeStreak == orZero(bestStreak, mode)
              newBest == isCorrect /\ streak + 1 > modeStreak
          IN /\ userAnswer' = answer
             /\ score' = [ correct |-> IF isCorrect THEN score.correct + 1 ELSE score.correct,
                           total |-> score.total + 1 ]
             /\ streak' = IF isCorrect THEN streak + 1 ELSE 0
             /\ bestStreak' = IF newBest THEN [bestStreak EXCEPT ![mode] = streak + 1]
                              ELSE bestStreak
             /\ stats' = recordStat(stats, mode, currentQuestion.answer, isCorrect)
             /\ UNCHANGED settings
             \* saveData in the streak branch, then saveData in recordStat
             /\ IF ok2 THEN SaveData(TRUE)
                ELSE IF newBest /\ ok1
                THEN /\ storage' = [snapshot' EXCEPT !.data.stats = stats]
                     /\ lastSave' = "failed"
                ELSE SaveData(FALSE)
             /\ adaptive' = updateAdaptive(isCorrect)
             /\ IF timedMode
                THEN /\ timedAnswering' = TRUE
                     /\ nextTimeouts' = nextTimeouts + 1
                     /\ screen' = screen
                ELSE /\ screen' = "result"
                     /\ UNCHANGED << timedAnswering, nextTimeouts >>
             /\ UNCHANGED << phase, mode, difficulty, previousScreen, replaysUsed,
                             currentQuestion, hintUsed, timedMode, timerInterval,
                             timerRemaining, timedChecked, activeTimers, countdowns >>

\* the setTimeout callback of handleAnswer in timed mode
NextTimeout(k1, k2, k3) ==
  /\ phase = "ready"
  /\ nextTimeouts > 0
  /\ nextTimeouts' = nextTimeouts - 1
  /\ timedAnswering' = FALSE
  /\ UNCHANGED << phase, mode, difficulty, screen, previousScreen, score, streak, bestStreak,
                  timedMode, timerInterval, timerRemaining, adaptive, settings, stats,
                  storage, lastSave, timedChecked, activeTimers, countdowns >>
  /\ IF screen = "playing" /\ timedMode /\ timerRemaining > 0
     THEN generateQuestion(mode, adaptive.tier, k1, k2, k3)
     ELSE UNCHANGED << currentQuestion, replaysUsed, userAnswer, hintUsed >>

\* a handleReplay that stops one replay late
HandleReplay_oneMore ==
  /\ phase = "ready"
  /\ screen = "playing"
  /\ replaysUsed' = IF replaysUsed > getEffectiveDifficulty.replayLimit
                    THEN replaysUsed ELSE replaysUsed + 1
  /\ UNCHANGED << phase, mode, difficulty, screen, previousScreen, score, streak, bestStreak,
                  currentQuestion, userAnswer, hintUsed,
                  timedMode, timerInterval, timerRemaining, timedAnswering,
                  adaptive, settings, stats, storage, lastSave, timedChecked,
                  activeTimers, countdowns, nextTimeouts >>

HandleReplay ==
  /\ phase = "ready"
  /\ screen = "playing"
  /\ replaysUsed' = IF replaysUsed >= getEffectiveDifficulty.replayLimit
                    THEN replaysUsed ELSE replaysUsed + 1
  /\ UNCHANGED << phase, mode, difficulty, screen, previousScreen, score, streak, bestStreak,
                  currentQuestion, userAnswer, hintUsed,
                  timedMode, timerInterval, timerRemaining, timedAnswering,
                  adaptive, settings, stats, storage, lastSave, timedChecked,
                  activeTimers, countdowns, nextTimeouts >>

\* the hint button / H key: applyHint unless the hint is used
HandleHint ==
  /\ phase = "ready"
  /\ screen = "playing"
  /\ hintUsed' = TRUE
  /\ UNCHANGED << phase, mode, difficulty, screen, previousScreen, score, streak, bestStreak,
                  replaysUsed, currentQuestion, userAnswer,
                  timedMode, timerInterval, timerRemaining, timedAnswering,
                  adaptive, settings, stats, storage, lastSave, timedChecked,
                  activeTimers, countdowns, nextTimeouts >>

HandleNext(k1, k2, k3) ==
  /\ phase = "ready"
  /\ screen = "result"
  /\ UNCHANGED << mode, difficulty, adaptive, settings >>
  /\ generateQuestion(mode, adaptive.tier, k1, k2, k3)
  /\ screen' = "playing"
  /\ UNCHANGED << phase, previousScreen, score, streak, bestStreak,
                  timedMode, timerInterval, timerRemaining, timedAnswering,
                  stats, storage, lastSave, timedChecked,
                  activeTimers, countdowns, nextTimeouts >>

HandleSettingsOpen ==
  /\ phase = "ready"
  /\ IF timedMode /\ timerInterval # 0 THEN UNCHANGED vars
     ELSE /\ previousScreen' = screen
          /\ screen' = "settings"
          /\ UNCHANGED << phase, mode, difficulty, score, streak, bestStreak,
                          replaysUsed, currentQuestion, userAnswer, hintUsed,
                          timedMode, timerInterval, timerRemaining, timedAnswering,
                          adaptive, settings, stats, storage, lastSave, timedChecked,
                          activeTimers, countdowns, nextTimeouts >>

\* a handleSettingsBack without the octave check
HandleSettingsBack_noClamp(omin, omax, wave, vol, ref, ok) ==
  /\ phase = "ready"
  /\ screen = "settings"
  /\ settings' = [ settings EXCEPT !.octaveMin = omin,
                                   !.octaveMax = omax,
                                   !.waveform = wave,
                                   !.volume = vol,
                                   !.referenceTone = ref ]
  /\ UNCHANGED << bestStreak, stats >>
  /\ SaveData(ok)
  /\ screen' = previousScreen
  /\ UNCHANGED << phase, mode, difficulty, previousScreen, score, streak,
                  replaysUsed, currentQuestion, userAnswer, hintUsed,
                  timedMode, timerInterval, timerRemaining, timedAnswering,
                  adaptive, timedChecked, activeTimers, countdowns, nextTimeouts >>

\* a handleSettingsBack that repairs the pair by lowering the minimum
HandleSettingsBack_lowerMin(omin, omax, wave, vol, ref, ok) ==
  /\ phase = "ready"
  /\ screen = "settings"
  /\ settings' = [ settings EXCEPT !.octaveMin = IF omin >= omax THEN omax - 1 ELSE omin,
                                   !.octaveMax = omax,
                                   !.waveform = wave,
                                   !.volume = vol,
                                   !.referenceTone = ref ]
  /\ UNCHANGED << bestStreak, stats >>
  /\ SaveData(ok)
  /\ screen' = previousScreen
  /\ UNCHANGED << phase, mode, difficulty, previousScreen, score, streak,
                  replaysUsed, currentQuestion, userAnswer, hintUsed,
                  timedMode, timerInterval, timerRemaining, timedAnswering,
                  adaptive, timedChecked, activeTimers, countdowns, nextTimeouts >>

\* handleSettingsBack with the values the form holds
HandleSettingsBack(omin, omax, wave, vol, ref, ok) ==
  /\ phase = "ready"
  /\ screen = "settings"
  /\ settings' = [ settings EXCEPT !.octaveMin = omin,
                                   !.octaveMax = IF omin >= omax THEN omin + 1 ELSE omax,
                                   !.waveform = wave,
                                   !.volume = vol,
                                   !.referenceTone = ref ]
  /\ UNCHANGED << bestStreak, stats >>
  /\ SaveData(ok)
  /\ screen' = previousScreen
  /\ UNCHANGED << phase, mode, difficulty, previousScreen, score, streak,
                  replaysUsed, currentQuestion, userAnswer, hintUsed,
                  timedMode, timerInterval, timerRemaining, timedAnswering,
                  adaptive, timedChecked, activeTimers, countdowns, nextTimeouts >>

HandleStatsOpen ==
  /\ phase = "ready"
  /\ IF timedMode /\ timerInterval # 0 THEN UNCHANGED vars
     ELSE /\ previousScreen' = screen
          /\ screen' = "stats"
          /\ UNCHANGED << phase, mode, difficulty, score, streak, bestStreak,
                          replaysUsed, currentQuestion, userAnswer, hintUsed,
                          timedMode, timerInterval, timerRemaining, timedAnswering,
                          adaptive, settings, stats, storage, lastSave, timedChecked,
                          activeTimers, countdowns, nextTimeouts >>

HandleStatsBack ==
  /\ phase = "ready"
  /\ screen = "stats"
  /\ screen' = previousScreen
  /\ UNCHANGED << phase, mode, difficulty, previousScreen, score, streak, bestStreak,
                  replaysUsed, currentQuestion, userAnswer, hintUsed,
                  timedMode, timerInterval, timerRemaining, timedAnswering,
                  adaptive, settings, stats, storage, lastSave, timedChecked,
                  activeTimers, countdowns, nextTimeouts >>

HandleResetScore(ok) ==
  /\ phase = "ready"
  /\ screen = "settings"
  /\ score' = [correct |-> 0, total |-> 0]
  /\ streak' = 0
  /\ bestStreak' = defaultBestStreak
  /\ UNCHANGED << settings, stats >>
  /\ SaveData(ok)
  /\ UNCHANGED << phase, mode, difficulty, screen, previousScreen,
                  replaysUsed, currentQuestion, userAnswer, hintUsed,
                  timedMode, timerInterval, timerRemaining, timedAnswering,
                  adaptive, timedChecked, activeTimers, countdowns, nextTimeouts >>

HandleResetStats(ok) ==
  /\ phase = "ready"
  /\ screen = "settings"
  /\ stats' = defaultStats
  /\ bestStreak' = defaultBestStreak
  /\ UNCHANGED settings
  /\ SaveData(ok)
  /\ UNCHANGED << phase, mode, difficulty, screen, previousScreen, score, streak,
                  replaysUsed, currentQuestion, userAnswer, hintUsed,
                  timedMode, timerInterval, timerRemaining, timedAnswering,
                  adaptive, timedChecked, activeTimers, countdowns, nextTimeouts >>

HandleBackToMenu ==
  /\ phase = "ready"
  /\ screen \in {"playing", "timed-result"}
  /\ activeTimers' = activeTimers \ {timerInterval}      \* stopTimer
  /\ timerInterval' = 0
  /\ timedMode' = FALSE
  /\ timedAnswering' = FALSE
  /\ screen' = "menu"
  /\ UNCHANGED << phase, mode, difficulty, previousScreen, score, streak, bestStreak,
                  replaysUsed, currentQuestion, userAnswer, hintUsed, timerRemaining,
                  adaptive, settings, stats, storage, lastSave, timedChecked,
                  countdowns, nextTimeouts >>

\* ── Question generator on its own ────────────────────────────────────────
\* The generator's inputs are the mode, the difficulty, the adaptive tier and the
\* octave settings; each input state is a result screen of a session that has
\* them, and the step is handleNext.
GenQuestion0 == questionFor(mode, adaptive.tier, 0, 0, 0)

InitGen ==
  /\ phase = "ready"
  /\ mode \in Modes
  /\ difficulty \in Difficulties
  /\ screen = "result"
  /\ previousScreen = "menu"
  /\ score = [correct |-> 0, total |-> 0]
  /\ streak = 0
  /\ bestStreak = defaultBestStreak
  /\ replaysUsed = 0
  /\ adaptive \in [tier : 0 .. 2, history : {<< >>}]
  /\ difficulty # "adaptive" => adaptive.tier = 0
  /\ \E omin \in OctaveValues, omax \in OctaveValues :
       /\ omin < omax
       /\ settings = [defaultSettings EXCEPT !.octaveMin = omin, !.octaveMax = omax]
  /\ currentQuestion = GenQuestion0
  /\ userAnswer = currentQuestion.answer
  /\ hintUsed = FALSE
  /\ timedMode = FALSE
  /\ timerInterval = 0
  /\ timerRemaining = TIMED_DURATION
  /\ timedAnswering = FALSE
  /\ stats = defaultStats
  /\ storage = [kind |-> "absent"]
  /\ lastSave = "none"
  /\ timedChecked = FALSE
  /\ activeTimers = {}
  /\ countdowns = 0
  /\ nextTimeouts = 0

\* a note question consumes one draw, a chord question two, an interval question three
NextGen ==
  \/ mode = "note" /\ \E k1 \in Draws : HandleNext(k1, 0, 0)
  \/ mode = "interval" /\ \E k1 \in Draws, k2 \in Draws, k3 \in Draws : HandleNext(k1, k2, k3)
  \/ mode = "chord" /\ \E k1 \in Draws, k2 \in Draws : HandleNext(k1, k2, 0)

SpecGen == InitGen /\ [][NextGen]_vars

\* ── Properties of the generated questions ────────────────────────────────
Abs(x) == IF x < 0 THEN -x ELSE x

inRange(m) == getMidiRange.low <= m /\ m <= getMidiRange.high

\* C1: an interval question's two pitches are the named interval's semitone count
\* apart and both lie in [range.low, range.high]; unless the pool is
\* 'all+descending' the question ascends and its answer has no ' (desc)' suffix.
C1_IntervalQuestionInRange ==
  mode = "interval" =>
    LET q == currentQuestion
    IN /\ \E n \in 1 .. Len(INTERVALS) :
            /\ q.answer = INTERVALS[n].name \o (IF q.midi2 < q.midi1 THEN " (desc)" ELSE "")
            /\ Abs(q.midi2 - q.midi1) = INTERVALS[n].semitones
       /\ Abs(q.midi2 - q.midi1) = q.semitones
       /\ inRange(q.midi1)
       /\ inRange(q.midi2)
       /\ getEffectiveDifficulty.intervalPool # "all+descending" =>
            /\ q.midi2 >= q.midi1
            /\ q.ascending
            /\ \E n \in 1 .. Len(INTERVALS) : q.answer = INTERVALS[n].name

\* a generated octave that descends to the lowest pitch of the range
C1_Witness ==
  /\ mode = "interval"
  /\ screen = "playing"
  /\ currentQuestion.answer = "Octave (desc)"
  /\ currentQuestion.midi2 = getMidiRange.low
  /\ currentQuestion.midi1 = getMidiRange.low + 12

\* C2: a note question's pitch lies in [range.low, range.high], its answer is
\* NOTE_NAMES[midi mod 12], and with the 'natural' pool the answer is never a sharp.
C2_NoteQuestionInRange ==
  mode = "note" =>
    LET q == currentQuestion
    IN /\ inRange(q.midi)
       /\ q.answer = NOTE_NAMES[(q.midi % 12) + 1]
       /\ getEffectiveDifficulty.notePool = "natural" =>
            q.answer \in {"C", "D", "E", "F", "G", "A", "B"}

\* a generated natural note above the lowest octave of the range
C2_Witness ==
  /\ mode = "note"
  /\ screen = "playing"
  /\ getEffectiveDifficulty.notePool = "natural"
  /\ currentQuestion.answer = "A"
  /\ currentQuestion.midi > getMidiRange.low + 12

chordNamed(name) == CHOOSE c \in {CHORDS[n] : n \in 1 .. Len(CHORDS)} : c.name = name

\* C3: every pitch of a chord question lies in [range.low, range.high], the
\* offsets from the root are the semitone list of the chord the answer names, and
\* the chord belongs to the pool the effective chordPool allows.
C3_ChordQuestionInRange ==
  mode = "chord" =>
    LET q == currentQuestion
        pool == getEffectiveDifficulty.chordPool
    IN /\ \E n \in 1 .. Len(CHORDS) : CHORDS[n].name = q.answer
       /\ \A i \in 1 .. Len(q.midiNotes) : inRange(q.midiNotes[i])
       /\ inRange(q.rootMidi)
       /\ [i \in 1 .. Len(q.midiNotes) |-> q.midiNotes[i] - q.rootMidi]
            = chordNamed(q.answer).semitones
       /\ \A i \in 1 .. (Len(q.midiNotes) - 1) : q.midiNotes[i] < q.midiNotes[i + 1]
       /\ pool = "basic" => q.answer \in {"Major", "Minor"}
       /\ pool = "triads" => q.answer \in {"Major", "Minor", "Dim", "Aug"}

\* a generated seventh chord whose top note is the highest pitch of the range
C3_Witness ==
  /\ mode = "chord"
  /\ screen = "playing"
  /\ currentQuestion.answer = "Maj7"
  /\ currentQuestion.midiNotes[4] = getMidiRange.high

\* ── Adaptive difficulty over whole sessions ──────────────────────────────
MaxQuestions == 15     \* answers recorded in stats before the runs stop answering

\* an answer the answer grid offers: the first choice, or the second when the
\* first is the correct one
wrongAnswer == IF getChoices[1] = currentQuestion.answer THEN getChoices[2] ELSE getChoices[1]

AnswerInputs == {currentQuestion.answer, wrongAnswer}

InitAdaptive == InitState /\ storage = [kind |-> "absent"]

NextAdaptive ==
  \/ Boot
  \/ \E d \in Difficulties : HandleDifficulty(d)
  \/ \E m \in Modes : HandleModeSelect(m, FALSE, 0, 0, 0)
  \/ /\ stats.totalQuestions < MaxQuestions
     /\ \E a \in AnswerInputs : HandleAnswer(a, TRUE, TRUE)
  \/ HandleNext(0, 0, 0)
  \/ /\ stats.totalQuestions >= MaxQuestions     \* the session is left once the budget is used
     /\ HandleBackToMenu

SpecAdaptive == InitAdaptive /\ [][NextAdaptive]_vars

\* a step in which handleAnswer scored an answer
Scored == score'.total = score.total + 1

ScoredCorrect == Scored /\ score'.correct = score.correct + 1

ScoredIncorrect == Scored /\ score'.correct = score.correct

maxTierOf(m) == Len(tiersOf(m)) - 1

\* C4: in adaptive difficulty, of five correct answers recorded from an empty
\* window the first four leave the tier alone and the fifth raises it by exactly
\* 1 and empties the window, unless the tier is the mode's top tier; of five
\* incorrect answers the first four leave the tier alone and the fifth lowers it
\* by exactly 1 and empties the window, unless the tier is 0.
C4_FiveInARow ==
  [][ difficulty = "adaptive" =>
        LET h == adaptive.history
        IN /\ (ScoredCorrect /\ Len(h) < 4 /\ countTrue(h) = Len(h)) =>
                 adaptive' = [tier |-> adaptive.tier, history |-> Append(h, TRUE)]
           /\ (ScoredCorrect /\ Len(h) = 4 /\ countTrue(h) = 4) =>
                 IF adaptive.tier < maxTierOf(mode)
                 THEN adaptive' = [tier |-> adaptive.tier + 1, history |-> << >>]
                 ELSE adaptive'.tier = adaptive.tier
           /\ (ScoredIncorrect /\ Len(h) < 4 /\ countTrue(h) = 0) =>
                 adaptive' = [tier |-> adaptive.tier, history |-> Append(h, FALSE)]
           /\ (ScoredIncorrect /\ Len(h) = 4 /\ countTrue(h) = 0) =>
                 IF adaptive.tier > 0
                 THEN adaptive' = [tier |-> adaptive.tier - 1, history |-> << >>]
                 ELSE adaptive'.tier = adaptive.tier ]_vars

\* five correct answers (tier 0 to 1), then five incorrect ones (tier 1 to 0)
C4_Witness ==
  /\ difficulty = "adaptive"
  /\ score = [correct |-> 5, total |-> 10]
  /\ streak = 0
  /\ adaptive = [tier |-> 0, history |-> << >>]

\* C5: adaptive.tier stays within [0, tierCount - 1] of the current mode's tier
\* list and adaptive.history holds at most 10 outcomes; recording an 11th drops
\* the oldest.
C5_TierAndWindowBounded ==
  /\ [](/\ adaptive.tier >= 0
        /\ mode \in Modes => adaptive.tier <= maxTierOf(mode)
        /\ Len(adaptive.history) <= 10)
  /\ [][ (difficulty = "adaptive" /\ Scored /\ Len(adaptive.history) = 10
          /\ adaptive'.tier = adaptive.tier) =>
         adaptive'.history = Append(Tail(adaptive.history), score'.correct > score.correct) ]_vars

\* an eleventh answer recorded into a full window
C5_Witness ==
  /\ difficulty = "adaptive"
  /\ score.total = 11
  /\ Len(adaptive.history) = 10
  /\ adaptive.tier = 0

\* C6: every tier change empties the window; an answer changes the tier only
\* when at least 4 outcomes were recorded since the window was last empty, so the
\* tier never changes on two consecutive answers; and the tier changes only when
\* an answer is scored or a mode is selected.
C6_NoOscillation ==
  [][ /\ adaptive'.tier # adaptive.tier => adaptive'.history = << >>
      /\ (Scored /\ adaptive'.tier # adaptive.tier) => Len(adaptive.history) >= 4
      /\ Scored => Len(adaptive'.history) <= Len(adaptive.history) + 1
      /\ adaptive'.tier # adaptive.tier =>
           \/ Scored /\ difficulty = "adaptive"
           \/ screen' = "playing" /\ score'.total = 0 /\ adaptive'.tier = 0 ]_vars

\* two promotions in one session, five answers apart
C6_Witness ==
  /\ difficulty = "adaptive"
  /\ score = [correct |-> 10, total |-> 10]
  /\ adaptive = [tier |-> 2, history |-> << >>]


\* ── Statistics over whole sessions ───────────────────────────────────────
MaxStatQuestions == 7  \* answers recorded in stats before the runs stop answering
MaxN == 3              \* largest n asked of getWeakest

\* three draws spread over [0, 1)
CoarseDraws == {0, RandRes \div 3, (2 * RandRes) \div 3}

InitStats == InitState /\ storage = [kind |-> "absent"]

NextStats ==
  \/ Boot
  \/ \E m \in Modes, k1 \in CoarseDraws : HandleModeSelect(m, FALSE, k1, 0, 0)
  \/ /\ stats.totalQuestions < MaxStatQuestions
     /\ \E a \in AnswerInputs : HandleAnswer(a, TRUE, TRUE)
  \/ \E k1 \in CoarseDraws : HandleNext(k1, 0, 0)

SpecStats == InitStats /\ [][NextStats]_vars

\* the entries of mode m that have been asked at least three times
qualifying(m) == {i \in 1 .. Len(stats.items[m]) : stats.items[m][i].total >= 3}

weakestNames(w) == {w[i].name : i \in 1 .. Len(w)}

\* C7: for every mode and every n >= 1, getWeakest(mode, n) returns at most n
\* entries, each with a total of at least 3 and each an entry of the mode with
\* its own counts and rounded percentage, in non-decreasing order of percentage;
\* it returns as many as n allows, and every qualifying entry it leaves out has a
\* percentage no lower than every one it returns
C7_WeakestLowestQualifying ==
  \A m \in Modes, n \in 1 .. MaxN :
    LET w == getWeakest(m, n)
        items == stats.items[m]
    IN /\ Len(w) <= n
       /\ Len(w) = Min(n, Cardinality(qualifying(m)))
       /\ Cardinality(weakestNames(w)) = Len(w)
       /\ \A i \in 1 .. Len(w) :
            /\ w[i].total >= 3
            /\ \E j \in qualifying(m) :
                 /\ items[j].name = w[i].name
                 /\ items[j].correct = w[i].correct
                 /\ items[j].total = w[i].total
                 /\ w[i].pct = pctOf(items[j].correct, items[j].total)
       /\ \A i \in 1 .. Len(w) - 1 : w[i].pct <= w[i + 1].pct
       /\ \A j \in qualifying(m) :
            items[j].name \notin weakestNames(w) =>
              \A i \in 1 .. Len(w) : w[i].pct <= pctOf(items[j].correct, items[j].total)

\* two entries of a mode qualify, the one recorded second has the lower percentage,
\* a third entry is below the floor, and getWeakest(mode, 1) returns the second
C7_Witness ==
  \E m \in Modes :
    /\ Len(stats.items[m]) = 3
    /\ stats.items[m][1].total = 3 /\ stats.items[m][1].correct = 3
    /\ stats.items[m][2].total = 3 /\ stats.items[m][2].correct = 1
    /\ stats.items[m][3].total = 1 /\ stats.items[m][3].correct = 0
    /\ getWeakest(m, 1) = << [ name |-> stats.items[m][2].name, correct |-> 1,
                               total |-> 3, pct |-> 33 ] >>


\* ── Persistence across play, timed rounds, settings and resets ────────────
MaxTotal == 2          \* answers recorded in stats before the runs stop answering
MaxScore == 2          \* answers scored in one session before the runs stop answering
MaxTimeouts == 1       \* pending post-answer callbacks

\* what an earlier session left in localStorage
StoredAbsent == [kind |-> "absent"]

StoredCorrupt == [kind |-> "corrupt"]

StoredNull == [kind |-> "null"]

\* written by the first release: one best streak, no volume, no stats
StoredLegacy(x) ==
  [ kind |-> "object",
    data |-> [ bestStreak |-> [t |-> "num", v |-> x],
               settings |-> [ octaveMin |-> 3, octaveMax |-> 4, waveform |-> "sine",
                              referenceTone |-> TRUE ] ] ]

\* written by a release that had per-mode streaks over the modes in o
StoredPerMode(o) ==
  [ kind |-> "object",
    data |-> [ bestStreak |-> [t |-> "obj", o |-> o],
               settings |-> defaultSettings,
               stats |-> [ items |-> [note |-> << [name |-> "C", correct |-> 1, total |-> 1] >>],
                           totalCorrect |-> 1, totalQuestions |-> 1 ] ] ]

\* what the settings form holds when Back is pressed:
\* octave-min, octave-max, waveform, volume slider, reference-tone checkbox
FormInputs == { << 4, 4, "sine", 30, TRUE >> }

\* a setItem that throws is followed by one that succeeds
WriteOutcomes == IF lastSave = "failed" THEN {TRUE} ELSE BOOLEAN

\* the modes the player picks
SessionModes == {"note", "chord"}

\* two draws: the low end and the middle of [0, 1)
TwoDraws == {0, RandRes \div 2}

\* the clock values of a timed round at which the player acts
UserMoments == {TIMED_DURATION, 1}

\* the player acts at any time outside a timed round
playerActs == timedMode /\ timerInterval # 0 => timerRemaining \in UserMoments

Init == InitState /\ storage \in {StoredAbsent, StoredCorrupt, StoredNull, StoredLegacy(1)}

\* the handlers that change what is persisted, and the steps that lead to them;
\* the player waits out the 3-2-1 countdown and opens the settings from the menu
Next ==
  \/ Boot
  \/ /\ countdowns = 0
     /\ \E m \in SessionModes, checked \in BOOLEAN : HandleModeSelect(m, checked, 0, 0, 0)
  \/ /\ stats.totalQuestions < MaxTotal
     /\ score.total < MaxScore
     /\ nextTimeouts < MaxTimeouts
     /\ countdowns = 0
     /\ playerActs
     /\ \E a \in AnswerInputs, ok1 \in WriteOutcomes, ok2 \in WriteOutcomes : HandleAnswer(a, ok1, ok2)
  \/ NextTimeout(0, 0, 0)
  \/ HandleNext(0, 0, 0)
  \/ screen = "menu" /\ HandleSettingsOpen
  \/ \E f \in FormInputs, ok \in WriteOutcomes : HandleSettingsBack(f[1], f[2], f[3], f[4], f[5], ok)
  \/ \E ok \in WriteOutcomes : HandleResetScore(ok)
  \/ \E ok \in WriteOutcomes : HandleResetStats(ok)
  \/ countdowns = 0 /\ playerActs /\ HandleBackToMenu
  \/ CountdownDone
  \/ \E ok \in WriteOutcomes : TimerTick(timerInterval, ok)

Spec == Init /\ [][Next]_vars

\* loadData run in a session that has the defaults of a fresh page load
loadedFresh ==
  loadData([bestStreak |-> defaultBestStreak, settings |-> defaultSettings,
            stats |-> defaultStats], storage)

\* C9: when the last storage write of a handler succeeded, loadData on the stored
\* snapshot in a fresh default session yields the in-memory bestStreak, settings
\* and stats
C9_RoundTrip ==
  lastSave = "ok" =>
    loadedFresh = [bestStreak |-> bestStreak, settings |-> settings, stats |-> stats]

\* a timed round has ended with a new timed best and its write succeeded, after
\* the settings were changed and a best streak was set in one mode only
C9_Witness ==
  /\ lastSave = "ok"
  /\ screen = "timed-result"
  /\ stats.timedBest["chord"] = 1
  /\ bestStreak["chord"] = 1
  /\ bestStreak["note"] = 0
  /\ settings.waveform = "sine"
  /\ stats.totalQuestions = 2

\* a step whose last storage write threw
failedWrite == lastSave # "failed" /\ lastSave' = "failed"

\* C11: loading when the stored value is absent, unparseable or null leaves
\* bestStreak, settings and stats at their defaults and the page goes on to the
\* menu; a handler whose storage write fails still applies its in-memory
\* updates: a scored answer updates score, streak, stats and the adaptive window
\* and moves on as it does when the write succeeds, and the other handlers that
\* save finish their own change
C11_StorageFailureTolerated ==
  [][ /\ (phase = "start" /\ phase' = "ready" /\ storage.kind # "object") =>
           /\ bestStreak' = defaultBestStreak
           /\ settings' = defaultSettings
           /\ stats' = defaultStats
           /\ screen' = "menu"
      /\ (failedWrite /\ Scored) =>
           LET right == userAnswer' = currentQuestion.answer
           IN /\ score' = [ correct |-> IF right THEN score.correct + 1 ELSE score.correct,
                            total |-> score.total + 1 ]
              /\ streak' = IF right THEN streak + 1 ELSE 0
              /\ stats' = recordStat(stats, mode, currentQuestion.answer, right)
              /\ adaptive' = updateAdaptive(right)
              /\ IF timedMode THEN timedAnswering' /\ screen' = "playing"
                 ELSE screen' = "result"
      /\ (failedWrite /\ ~Scored) =>
           \/ screen' = "timed-result" /\ stats'.timedBest[mode] = score.correct
           \/ screen = "settings" /\ screen' = previousScreen
           \/ screen = "settings" /\ bestStreak' = defaultBestStreak ]_vars

\* the page was loaded over an unparseable stored value, and the write of the
\* first answer, a correct one, threw: the value is still there and the answer
\* is scored and recorded
C11_Witness ==
  /\ storage = StoredCorrupt
  /\ lastSave = "failed"
  /\ screen = "result"
  /\ score = [correct |-> 1, total |-> 1]
  /\ streak = 1
  /\ stats.totalQuestions = 1
  /\ stats.totalCorrect = 1

\* C22: in every state with a mode selected, the best streak of that mode is at
\* least the current streak, the correct answers of the score are at most its
\* total, and the streak is at most the correct answers
C22_StreakWithinBest ==
  mode # Null =>
    /\ orZero(bestStreak, mode) >= streak
    /\ score.correct <= score.total
    /\ streak <= score.correct

\* ── Recording and resetting statistics ───────────────────────────────────
MaxRecorded == 3       \* answers recorded in stats, and scored in one session

InitRecord == InitState /\ storage = StoredAbsent

NextRecord ==
  \/ Boot
  \/ \E m \in Modes : HandleModeSelect(m, FALSE, 0, 0, 0)
  \/ /\ stats.totalQuestions < MaxRecorded
     /\ score.total < MaxRecorded
     /\ \E a \in AnswerInputs : HandleAnswer(a, TRUE, TRUE)
  \/ \E k1 \in TwoDraws : HandleNext(k1, 0, 0)
  \/ HandleSettingsOpen
  \/ \E f \in FormInputs : HandleSettingsBack(f[1], f[2], f[3], f[4], f[5], TRUE)
  \/ HandleResetStats(TRUE)
  \/ HandleBackToMenu

SpecRecord == InitRecord /\ [][NextRecord]_vars

\* the [correct, total] pair st holds for key k of mode m, zeros when it has none
entryOf(st, m, k) ==
  IF m \in DOMAIN st.items /\ hasKey(st.items[m], k)
  THEN LET e == st.items[m][keyIndex(st.items[m], k)]
       IN [correct |-> e.correct, total |-> e.total]
  ELSE [correct |-> 0, total |-> 0]

keysOf(st, m) ==
  IF m \in DOMAIN st.items THEN {st.items[m][i].name : i \in 1 .. Len(st.items[m])} ELSE {}

statsShrink ==
  \/ stats'.totalQuestions < stats.totalQuestions
  \/ stats'.totalCorrect < stats.totalCorrect
  \/ \E m \in DOMAIN stats.items : \E k \in keysOf(stats, m) :
       \/ entryOf(stats', m, k).total < entryOf(stats, m, k).total
       \/ entryOf(stats', m, k).correct < entryOf(stats, m, k).correct

\* C8: a scored answer adds exactly 1 to the total of the entry keyed by the
\* current mode and the question's correct answer and 1 to totalQuestions, adds 1
\* to that entry's correct count and to totalCorrect exactly when the answer given
\* is the correct one, and leaves every other entry as it was; a step in which a
\* per-key count or an aggregate total decreases is a step of handleResetStats
C8_RecordAdditive ==
  [][ /\ Scored =>
          LET key == currentQuestion.answer
              right == IF userAnswer' = currentQuestion.answer THEN 1 ELSE 0
          IN /\ entryOf(stats', mode, key).total = entryOf(stats, mode, key).total + 1
             /\ entryOf(stats', mode, key).correct = entryOf(stats, mode, key).correct + right
             /\ stats'.totalQuestions = stats.totalQuestions + 1
             /\ stats'.totalCorrect = stats.totalCorrect + right
             /\ \A m \in Modes :
                  /\ keysOf(stats', m) = keysOf(stats, m) \cup (IF m = mode THEN {key} ELSE {})
                  /\ \A k \in keysOf(stats', m) :
                       << m, k >> # << mode, key >> => entryOf(stats', m, k) = entryOf(stats, m, k)
      /\ statsShrink => HandleResetStats(TRUE) ]_vars

\* two keys of the note mode and one of the chord mode have been recorded, one
\* answer of the three was correct, and the last answer was a wrong one
C8_Witness ==
  /\ screen = "result"
  /\ mode = "note"
  /\ userAnswer # currentQuestion.answer
  /\ Len(stats.items["note"]) = 2
  /\ Len(stats.items["chord"]) = 1
  /\ stats.items["chord"][1].correct = 1
  /\ stats.totalQuestions = 3
  /\ stats.totalCorrect = 1

\* ── Loading what earlier sessions stored ──────────────────────────────────
MaxStored == 2         \* largest best streak found in storage

\* the per-mode records: any of the three fields may be missing
StoredStreaks == UNION {[S -> 0 .. MaxStored] : S \in SUBSET Modes}

InitLoad ==
  /\ InitState
  /\ storage \in {StoredAbsent, StoredCorrupt, StoredNull}
                 \cup {StoredLegacy(x) : x \in 0 .. MaxStored}
                 \cup {StoredPerMode(o) : o \in StoredStreaks}

NextLoad == Boot

SpecLoad == InitLoad /\ [][NextLoad]_vars

\* C10: after loading a snapshot whose bestStreak is a single number X the best
\* streaks are {note: X, interval: X, chord: 0}; after loading one whose
\* bestStreak is a per-mode record each mode's best streak is the stored value,
\* or 0 when the record has no field for the mode
C10_BestStreakMigrated ==
  (phase = "ready" /\ storage.kind = "object") =>
    IF storage.data.bestStreak.t = "num"
    THEN bestStreak = [ note |-> storage.data.bestStreak.v,
                        interval |-> storage.data.bestStreak.v, chord |-> 0 ]
    ELSE \A m \in Modes :
           bestStreak[m] = IF m \in DOMAIN storage.data.bestStreak.o
                           THEN storage.data.bestStreak.o[m] ELSE 0

\* a snapshot of the first release with a best streak of 2 has been loaded
C10_Witness ==
  /\ phase = "ready"
  /\ storage = StoredLegacy(2)
  /\ bestStreak = [note |-> 2, interval |-> 2, chord |-> 0]

\* ── Octave settings: stored, entered and used ────────────────────────────
\* the settings records saveData can have written: the octave pair is one that
\* handleSettingsBack leaves behind
StoredSettings ==
  { [defaultSettings EXCEPT !.octaveMin = p[1], !.octaveMax = p[2]] :
      p \in { q \in OctaveValues \X ((MinOctave + 1) .. (MaxOctave + 1)) : q[1] < q[2] } }

StoredWithSettings(st) ==
  [ kind |-> "object",
    data |-> [ bestStreak |-> [t |-> "obj", o |-> defaultBestStreak],
               settings |-> st,
               stats |-> defaultStats ] ]

InitSettings ==
  /\ InitState
  /\ storage \in {StoredAbsent, StoredLegacy(1)} \cup {StoredWithSettings(st) : st \in StoredSettings}

NextSettings ==
  \/ Boot
  \/ \E m \in Modes, k1 \in CoarseDraws : HandleModeSelect(m, FALSE, k1, 0, 0)
  \/ HandleBackToMenu
  \/ screen # "settings" /\ HandleSettingsOpen
  \/ \E omin \in OctaveValues, omax \in OctaveValues :
       HandleSettingsBack(omin, omax, "sine", 30, TRUE, TRUE)

SpecSettings == InitSettings /\ [][NextSettings]_vars

C13_OctavePairRepaired ==
  [][ \A omin \in OctaveValues, omax \in OctaveValues :
        HandleSettingsBack(omin, omax, "sine", 30, TRUE, TRUE) =>
          /\ settings'.octaveMin < settings'.octaveMax
          /\ settings'.octaveMin = omin
          /\ settings'.octaveMax = IF omin >= omax THEN omin + 1 ELSE omax ]_vars

\* the settings after 4 was entered for both: 4 is kept and the maximum is 5
C13_Witness ==
  /\ phase = "ready"
  /\ screen = "menu"
  /\ lastSave = "ok"
  /\ settings.octaveMin = 4
  /\ settings.octaveMax = 5
  /\ settings.waveform = "sine"

\* ── Timed rounds: countdown, timer, answers and navigation interleaved ───
MaxTimers == 2         \* pending start countdowns and running timers together
MaxOvershoot == 1      \* ticks followed below zero

\* with a timer running the player acts on the first and the last second, and
\* right after the clock has run out
TimedMoments == {TIMED_DURATION, 1, 0}

timedMoment == activeTimers # {} => timerRemaining \in TimedMoments

InitTimed == InitState /\ storage = StoredAbsent

NextTimed ==
  \/ Boot
  \/ /\ countdowns + Cardinality(activeTimers) < MaxTimers
     /\ timedMoment
     /\ \E checked \in BOOLEAN : HandleModeSelect("note", checked, 0, 0, 0)
  \/ /\ timedMoment
     /\ countdowns + Cardinality(activeTimers) < MaxTimers
     /\ HandleTimedRetry(0, 0, 0)
  \/ /\ stats.totalQuestions < MaxTotal
     /\ score.total < MaxScore
     /\ nextTimeouts < MaxTimeouts
     /\ timedMoment
     /\ \E a \in AnswerInputs : HandleAnswer(a, TRUE, TRUE)
  \/ NextTimeout(0, 0, 0)
  \/ timedMoment /\ HandleNext(0, 0, 0)
  \/ screen \notin {"settings", "stats"} /\ timedMoment /\ HandleSettingsOpen
  \/ HandleSettingsBack(settings.octaveMin, settings.octaveMax, settings.waveform,
                        settings.volume, settings.referenceTone, TRUE)
  \/ screen \notin {"settings", "stats"} /\ timedMoment /\ HandleStatsOpen
  \/ HandleStatsBack
  \/ timedMoment /\ HandleBackToMenu
  \/ CountdownDone
  \/ /\ timerRemaining > -MaxOvershoot
     /\ \E id \in activeTimers : TimerTick(id, TRUE)

SpecTimed == InitTimed /\ [][NextTimed]_vars

C15_TimerStoppedAfterBackToMenu ==
  /\ [](timedMode = FALSE => activeTimers = {} /\ timerInterval = 0)
  /\ [][ /\ (timedMode = FALSE /\ timedMode' = FALSE) => timerRemaining' = timerRemaining
         /\ (screen \in {"playing", "timed-result"} /\ screen' = "menu" /\ timerInterval = 0) =>
              /\ activeTimers' = activeTimers
              /\ timerInterval' = 0
              /\ timerRemaining' = timerRemaining ]_vars

\* C18: during a timed challenge at most one timer is active; timerRemaining is
\* within [0, 60] in every state and a tick lowers it by exactly 1; the round
\* ends exactly when a tick brings it to 0: that tick clears the timer and
\* shows the timed-result screen, and no tick comes after it
C18_OneTimerOneEnd ==
  /\ [](/\ timedMode => Cardinality(activeTimers) <= 1
        /\ timerRemaining \in 0 .. TIMED_DURATION)
  /\ [][ timerRemaining' < timerRemaining =>
           /\ timerRemaining' = timerRemaining - 1
           /\ timerRemaining > 0
           /\ timerRemaining' = 0 =>
                /\ screen' = "timed-result"
                /\ activeTimers' = {}
                /\ timerInterval' = 0 ]_vars

\* C20: in every state in which a round timer is running the screen shown is
\* neither the settings screen nor the stats screen
C20_NoSettingsWhileTimerRuns ==
  timerInterval # 0 => screen \notin {"settings", "stats"}

\* C21: in timed mode, between the selection of the mode and the start of its
\* timer (a start countdown is pending, no timer is set, and the step is neither
\* a selection nor the end of the countdown), score.total, stats and the
\* adaptive window do not change
C21_NoScoreBeforeTimerStarts ==
  [][ ( /\ timedMode /\ timedMode'
        /\ timerInterval = 0
        /\ countdowns > 0 /\ countdowns' = countdowns ) =>
          /\ score'.total = score.total
          /\ stats' = stats
          /\ adaptive'.history = adaptive.history ]_vars

\* ── Playing a question: tones and replays ────────────────────────────────
MaxReplays == 5        \* replays of one question before the runs stop replaying
MaxPlayed == 2         \* answers scored in one session before the runs stop answering

\* a session of each mode and difficulty, on its result screen, default settings
InitPlay == InitGen /\ settings = defaultSettings

NextPlay ==
  \/ \E k1 \in CoarseDraws, k2 \in CoarseDraws : HandleNext(k1, k2, 0)
  \/ replaysUsed < MaxReplays /\ HandleReplay
  \/ /\ stats.totalQuestions < MaxPlayed
     /\ \E a \in AnswerInputs : HandleAnswer(a, TRUE, TRUE)
  \/ screen = "result" /\ HandleSettingsOpen
  \/ \E ref \in BOOLEAN :
       HandleSettingsBack(settings.octaveMin, settings.octaveMax, settings.waveform,
                          settings.volume, ref, TRUE)

SpecPlay == InitPlay /\ [][NextPlay]_vars

\* the question tones among the tones playCurrentQuestion schedules
questionTonesPlayed == SelectSeq(playCurrentQuestion, LAMBDA t : t.tone = "question")

referenceTonesPlayed == SelectSeq(playCurrentQuestion, LAMBDA t : t.tone = "reference")

\* C16 as stated: with the reference tone enabled, the reference tone starts at
\* offset 0 and the single note, the first interval note and every chord note
\* start at an offset equal to the reference tone's duration; the second interval
\* note starts at the first note's start plus the note duration plus the gap
C16_OffsetIsReferenceDuration ==
  (screen = "playing" /\ settings.referenceTone) =>
    LET q == questionTonesPlayed
        r == referenceTonesPlayed
    IN /\ Len(r) = 1
       /\ r[1].start = 0
       /\ q[1].start = r[1].duration
       /\ mode = "chord" => \A i \in 1 .. Len(q) : q[i].start = r[1].duration
       /\ mode = "interval" => q[2].start = q[1].start + q[1].duration + INTERVAL_GAP

\* C16 amended: with the reference tone enabled, the reference tone starts at
\* offset 0 and lasts 0.8 s, and the single note, the first interval note and
\* every chord note start at the fixed offset of 1.0 s, 0.2 s after the reference
\* tone has ended; the second interval note starts at the first note's start
\* plus the note duration plus the gap of 0.15 s
C16_OffsetIsOneSecond ==
  (screen = "playing" /\ settings.referenceTone) =>
    LET q == questionTonesPlayed
        r == referenceTonesPlayed
    IN /\ Len(r) = 1
       /\ r[1].start = 0
       /\ r[1].duration = 800
       /\ q[1].start = 1000
       /\ mode = "note" => Len(q) = 1
       /\ mode = "chord" => /\ Len(q) = Len(currentQuestion.midiNotes)
                            /\ \A i \in 1 .. Len(q) : q[i].start = 1000
       /\ mode = "interval" => /\ Len(q) = 2
                               /\ q[2].start = q[1].start + q[1].duration + 150

\* an interval question on hard is played after the reference tone: the first
\* note starts at 1000 ms and the second at 1650 ms
C16_Witness ==
  /\ screen = "playing"
  /\ settings.referenceTone
  /\ mode = "interval"
  /\ difficulty = "hard"
  /\ Len(playCurrentQuestion) = 3
  /\ playCurrentQuestion[1].tone = "reference"
  /\ playCurrentQuestion[2].start = 1000
  /\ playCurrentQuestion[3].start = 1650

\* the replay limit the claim names for the session's difficulty
namedReplayLimit ==
  IF difficulty = "hard" THEN 2
  ELSE IF difficulty = "adaptive" /\ adaptive.tier = maxTierOf(mode)
       THEN (IF mode = "note" THEN 4 ELSE 3)
  ELSE Infinity

\* C17: the effective replay limit is 2 on hard, 4 or 3 on the top adaptive tier
\* and unbounded otherwise; while a question is being played its replaysUsed is
\* at most that limit; a replay is counted, by exactly 1, only when replaysUsed
\* is below the limit; handleNext leaves replaysUsed at 0
C17_ReplaysWithinLimit ==
  /\ [](/\ getEffectiveDifficulty.replayLimit = namedReplayLimit
        /\ screen = "playing" => replaysUsed <= getEffectiveDifficulty.replayLimit)
  /\ [][ /\ (replaysUsed' # replaysUsed /\ replaysUsed' # 0) =>
              /\ replaysUsed' = replaysUsed + 1
              /\ replaysUsed < getEffectiveDifficulty.replayLimit
         /\ (replaysUsed' = replaysUsed /\ HandleReplay) =>
              replaysUsed = getEffectiveDifficulty.replayLimit
         /\ (screen = "result" /\ screen' = "playing") => replaysUsed' = 0 ]_vars

\* a note question on the top adaptive tier has been replayed four times
C17_Witness ==
  /\ screen = "playing"
  /\ difficulty = "adaptive"
  /\ mode = "note"
  /\ adaptive.tier = 2
  /\ replaysUsed = 4

\* ── Sessions: what a mode selection and a next question reset ────────────
MaxSessionReplays == 1 \* replays of one question before the runs stop replaying

InitSession == InitPlay

NextSession ==
  \/ \E m \in Modes, k1 \in TwoDraws : HandleModeSelect(m, FALSE, k1, 0, 0)
  \/ \E k1 \in TwoDraws : HandleNext(k1, 0, 0)
  \/ replaysUsed < MaxSessionReplays /\ HandleReplay
  \/ ~hintUsed /\ HandleHint
  \/ /\ stats.totalQuestions < MaxPlayed
     /\ \E a \in AnswerInputs : HandleAnswer(a, TRUE, TRUE)
  \/ HandleBackToMenu

SpecSession == InitSession /\ [][NextSession]_vars

\* C19: handleModeSelect sets score to 0/0, streak to 0, the adaptive tier to 0
\* and the window to empty and generates a question of the selected mode on the
\* first tier with replaysUsed 0, no user answer and the hint unused, and leaves
\* bestStreak, stats and settings as they were; handleNext generates a question
\* of the session's mode and tier with replaysUsed 0, no user answer and the hint
\* unused, and leaves score, streak, bestStreak, adaptive state, stats and
\* settings as they were
C19_ResetOnModeSelectAndNext ==
  [][ /\ \A m \in Modes, k1 \in TwoDraws :
           HandleModeSelect(m, FALSE, k1, 0, 0) =>
             /\ score' = [correct |-> 0, total |-> 0]
             /\ streak' = 0
             /\ adaptive'.tier = 0
             /\ adaptive'.history = << >>
             /\ mode' = m
             /\ currentQuestion' = questionFor(m, 0, k1, 0, 0)
             /\ replaysUsed' = 0
             /\ userAnswer' = NoAnswer
             /\ hintUsed' = FALSE
             /\ UNCHANGED << bestStreak, stats, settings >>
      /\ \A k1 \in TwoDraws :
           HandleNext(k1, 0, 0) =>
             /\ currentQuestion' = questionFor(mode, adaptive.tier, k1, 0, 0)
             /\ replaysUsed' = 0
             /\ userAnswer' = NoAnswer
             /\ hintUsed' = FALSE
             /\ UNCHANGED << score, streak, bestStreak, adaptive, stats, settings >> ]_vars

\* a chord session has just been selected in adaptive difficulty after a note
\* session that set a best streak of 2 and recorded two answers
C19_Witness ==
  /\ screen = "playing"
  /\ difficulty = "adaptive"
  /\ mode = "chord"
  /\ score = [correct |-> 0, total |-> 0]
  /\ streak = 0
  /\ adaptive = [tier |-> 0, history |-> << >>]
  /\ replaysUsed = 0
  /\ userAnswer = NoAnswer
  /\ ~hintUsed
  /\ bestStreak["note"] = 2
  /\ stats.totalQuestions = 2
  /\ Len(stats.items["note"]) >= 1
  /\ Len(stats.items["chord"]) = 0

\* ── Navigation: the settings and stats screens and their Back buttons ────
MaxNavAnswers == 1     \* answers scored before the runs stop answering

InitNav == InitState /\ storage = StoredAbsent

\* #settings-btn and #stats-btn are bound once in init and their handlers do not
\* look at the screen shown, so they run on every screen
NextNav ==
  \/ Boot
  \/ /\ countdowns = 0 /\ activeTimers = {}
     /\ \E m \in Modes, checked \in BOOLEAN : HandleModeSelect(m, checked, 0, 0, 0)
  \/ /\ countdowns = 0 /\ activeTimers = {}
     /\ HandleTimedRetry(0, 0, 0)
  \/ /\ stats.totalQuestions < MaxNavAnswers
     /\ nextTimeouts < MaxTimeouts
     /\ timedMoment
     /\ \E a \in AnswerInputs : HandleAnswer(a, TRUE, TRUE)
  \/ NextTimeout(0, 0, 0)
  \/ HandleNext(0, 0, 0)
  \/ timedMoment /\ HandleSettingsOpen
  \/ HandleSettingsBack(settings.octaveMin, settings.octaveMax, settings.waveform,
                        settings.volume, settings.referenceTone, TRUE)
  \/ timedMoment /\ HandleStatsOpen
  \/ HandleStatsBack
  \/ timedMoment /\ HandleBackToMenu
  \/ CountdownDone
  \/ /\ timerRemaining > 0
     /\ \E id \in activeTimers : TimerTick(id, TRUE)

SpecNav == InitNav /\ [][NextNav]_vars

\* C23: previousScreen is never the settings screen nor the stats screen, so
\* the Back button of either screen shows a screen other than these two
C23_BackLeavesSettingsAndStats ==
  previousScreen \notin {"settings", "stats"}

====
